---- MODULE Spec2Model ----
(***************************************************************************)
(* sale_opportunity: the opportunity workflow, the opportunity/sale link   *)
(* table and the hooks on the sale workflow, as a state machine over the   *)
(* stored records.                                                         *)
(*                                                                         *)
(* Every action is one server call, i.e. one database transaction.  The    *)
(* outcome of a call is computed by an operator named after the method     *)
(* (SaleOpportunity_delete, Sale_cancel, ...): the tables after the call,  *)
(* the user error raised ("" when none) and the records returned.  A call  *)
(* that raises rolls back: its outcome holds the tables as they were.      *)
(* The action of the call commits its outcome; the error and the result    *)
(* go to the caller and are no part of the stored state.                   *)
(*                                                                         *)
(* No method of the module reads probability, end_date or won_amount, so   *)
(* a specification follows these fields only when its `scope` names them   *)
(* (they stay None otherwise); state, sale_state, reference and the links  *)
(* are always followed.                                                    *)
(*                                                                         *)
(* Methods that read no table of the workflow (get_sale_state, create_sale *)
(* with its lines, the report queries, the declared transitions) are taken *)
(* alone, each in a specification of its own whose Init draws the input.   *)
(***************************************************************************)
EXTENDS Integers, Sequences, FiniteSets, TLC

\* ----------------------------------------------------------------- bounds
\* ids an opportunity / a sale can get (ids are never given twice)
MaxOpportunities == 2
MaxSales == 2
\* opportunities stored at a time in the specification that follows all fields
MaxLive == 1
\* sales made in the specification that follows the end date and the won amount of
\* MaxOpportunities opportunities at a time
MaxFrameSales == 1
\* length of the lists get_sale_state is checked on alone
MaxSaleList == 3

\* -------------------------------------------------------------- constants
\* STATES: the selection of sale.opportunity.state
STATES == {"lead", "opportunity", "converted", "won", "cancelled", "lost"}

\* the selection of sale.opportunity.sale_state
SALE_STATE_SELECTION == {"none", "waiting", "confirmed", "done", "cancelled"}

\* the states of sale.sale (the model Sale extends)
SaleStates == {"draft", "quotation", "confirmed", "processing", "done", "cancel"}

\* the transitions without the way back from won
_transitions_won_final ==
    { <<"lead", "opportunity">>, <<"lead", "lost">>, <<"lead", "cancelled">>,
      <<"opportunity", "converted">>, <<"opportunity", "lead">>,
      <<"opportunity", "lost">>, <<"opportunity", "won">>,
      <<"opportunity", "cancelled">>, <<"converted", "converted">>,
      <<"converted", "won">>, <<"converted", "lost">>,
      <<"lost", "lead">>, <<"cancelled", "lead">> }

\* cls._transitions of SaleOpportunity
_transitions ==
    { <<"lead", "opportunity">>,
      <<"lead", "lost">>,
      <<"lead", "cancelled">>,
      <<"opportunity", "converted">>,
      <<"opportunity", "lead">>,
      <<"opportunity", "lost">>,
      <<"opportunity", "won">>,
      <<"opportunity", "cancelled">>,
      <<"converted", "converted">>,
      <<"converted", "won">>,
      <<"converted", "lost">>,
      <<"won", "opportunity">>,
      <<"lost", "lead">>,
      <<"cancelled", "lead">> }

default_state == "lead"
default_probability == 50
default_sale_state == "none"

\* the value of a field that is not set
None == -1000
\* Date.today()
Today == 1

OpportunityIds == 1..MaxOpportunities
SaleIds == 1..MaxSales

\* probabilities a caller may send (None: the field is not in the values)
ProbabilityInputs == {None, -1, 0, 100, 101}
\* references a caller may send (None: the field is not in the values)
ReferenceInputs == {None, 77}

\* the fields a specification may or may not follow
Fields == {"probability", "end_date", "won_amount"}

\* sale.total_amount, a fixed amount per sale
total_amount(s) == 10 * s

VARIABLES
    opportunities,         \* table sale_opportunity: id -> record
    sales,                 \* table sale_sale: id -> state
    opportunity_sale_rel,  \* table opportunity_sale_rel: set of <<opportunity, sale>>
    sequence,              \* next number of the configured opportunity sequence
    opportunity_id,        \* last id given to an opportunity
    sale_id,               \* last id given to a sale
    scope,                 \* the fields followed, the opportunities stored at a
                           \* time, the sales made
    sale_list,             \* input of get_sale_state taken alone
    sale_list_state,       \* its result
    call,                  \* a method taken alone: its name and its input
    returned               \* <<what it returned>>, <<>> before it ran

vars == <<opportunities, sales, opportunity_sale_rel, sequence, opportunity_id,
          sale_id, scope, sale_list, sale_list_state, call, returned>>

\* the tables
db == <<opportunities, sales, opportunity_sale_rel, sequence, opportunity_id, sale_id>>

\* no method is taken alone
NoCall == call = <<>> /\ returned = <<>>

\* ---------------------------------------------------------------- helpers
RECURSIVE SortedSeq(_)
SortedSeq(S) ==
    IF S = {} THEN <<>>
    ELSE LET m == CHOOSE x \in S : \A y \in S : x <= y
         IN <<m>> \o SortedSeq(S \ {m})

RECURSIVE SumAmount(_)
SumAmount(S) ==
    IF S = {} THEN 0
    ELSE LET s == CHOOSE x \in S : TRUE
         IN total_amount(s) + SumAmount(S \ {s})

\* opportunity.sales / sale.opportunities through the relation table
SalesOf(rel, o) == {l[2] : l \in {k \in rel : k[1] = o}}
OpportunitiesOf(rel, s) == {l[1] : l \in {k \in rel : k[2] = s}}

Live == DOMAIN opportunities
LiveSales == DOMAIN sales

\* the value stored in a field: None when the specification does not follow it
Stored(field, value) == IF field \in scope.fields THEN value ELSE None

\* cls.write(records, {'state': state})
WriteState(opps, S, st) ==
    [o \in DOMAIN opps |-> IF o \in S THEN [opps[o] EXCEPT !.state = st] ELSE opps[o]]

\* the outcome of a call that returns
Return(opps, sls, rel, ret) ==
    [opportunities |-> opps, sales |-> sls, rel |-> rel, sequence |-> sequence,
     opportunity_id |-> opportunity_id, sale_id |-> sale_id,
     error |-> "", result |-> ret]

\* the outcome of a call that raises: the transaction is rolled back
raise_user_error(error) ==
    [opportunities |-> opportunities, sales |-> sales, rel |-> opportunity_sale_rel,
     sequence |-> sequence, opportunity_id |-> opportunity_id, sale_id |-> sale_id,
     error |-> error, result |-> {}]

\* a call ends: the database holds the tables of its outcome
Commit(out) ==
    /\ opportunities' = out.opportunities
    /\ sales' = out.sales
    /\ opportunity_sale_rel' = out.rel
    /\ sequence' = out.sequence
    /\ opportunity_id' = out.opportunity_id
    /\ sale_id' = out.sale_id
    /\ UNCHANGED <<scope, sale_list, sale_list_state, call, returned>>

\* ------------------------------------------------- SaleOpportunity methods
\* a branch order that looks at "any sale confirmed" before "all sales done"
get_sale_state_any_first(states) ==
    IF Len(states) = 0 THEN "none"
    ELSE IF \E i \in 1..Len(states) :
                states[i] \in {"confirmed", "processing", "done"} THEN "confirmed"
    ELSE IF \A i \in 1..Len(states) : states[i] = "done" THEN "done"
    ELSE IF \A i \in 1..Len(states) : states[i] = "cancel" THEN "cancelled"
    ELSE IF \E i \in 1..Len(states) : states[i] = "draft" THEN "waiting"
    ELSE "none"

\* get_sale_state, on the list of the states of the linked sales
get_sale_state(states) ==
    IF Len(states) = 0 THEN "none"
    ELSE IF \A i \in 1..Len(states) : states[i] = "done" THEN "done"
    ELSE IF \E i \in 1..Len(states) :
                states[i] \in {"confirmed", "processing", "done"} THEN "confirmed"
    ELSE IF \A i \in 1..Len(states) : states[i] = "cancel" THEN "cancelled"
    ELSE IF \E i \in 1..Len(states) : states[i] = "draft" THEN "waiting"
    ELSE "none"

\* the states of the sales of opportunity o, in id order
SaleStatesOf(sls, rel, o) ==
    LET ids == SortedSeq(SalesOf(rel, o))
    IN [i \in 1..Len(ids) |-> sls[ids[i]]]

\* set_sale_state that writes nothing
set_sale_state_skipped(opps, sls, rel, S) == opps

\* set_sale_state of every opportunity of S
set_sale_state(opps, sls, rel, S) ==
    [o \in DOMAIN opps |->
        IF o \in S
        THEN [opps[o] EXCEPT !.sale_state = get_sale_state(SaleStatesOf(sls, rel, o))]
        ELSE opps[o]]

is_reset(r) == r.state = "lost" /\ r.sale_state = "waiting"
is_won(r) == r.sale_state = "confirmed"
is_lost(r) == r.sale_state = "cancelled"

set_end_date(opps, S) ==
    [o \in DOMAIN opps |->
        IF o \in S THEN [opps[o] EXCEPT !.end_date = Stored("end_date", Today)]
        ELSE opps[o]]

set_won_amount(opps, sls, rel, S) ==
    [o \in DOMAIN opps |->
        IF o \in S
        THEN [opps[o] EXCEPT !.won_amount =
                Stored("won_amount",
                    SumAmount({s \in SalesOf(rel, o) :
                        sls[s] \in {"confirmed", "processing", "done"}}))]
        ELSE opps[o]]

\* a decorator that runs the method on every record given
Unfiltered(opps, S, target) == S

\* Workflow.transition(state): the records of S the decorated method is run on
Filtered(opps, S, target) ==
    {o \in S : <<opps[o].state, target>> \in _transitions}

\* Workflow.transition(state): the records whose state is written afterwards
ToUpdate(opps, S, target) ==
    {o \in Filtered(opps, S, target) : opps[o].state # target}

lead(opps, S) ==
    WriteState(opps, ToUpdate(opps, S, "lead"), "lead")

opportunity(opps, S) ==
    WriteState(opps, ToUpdate(opps, S, "opportunity"), "opportunity")

won(opps, sls, rel, S) ==
    LET f == Filtered(opps, S, "won")
        a == set_end_date(opps, f)
        b == set_won_amount(a, sls, rel, f)
    IN WriteState(b, ToUpdate(opps, S, "won"), "won")

lost(opps, S) ==
    WriteState(set_end_date(opps, Filtered(opps, S, "lost")),
               ToUpdate(opps, S, "lost"), "lost")

cancel(opps, S) ==
    WriteState(set_end_date(opps, Filtered(opps, S, "cancelled")),
               ToUpdate(opps, S, "cancelled"), "cancelled")

\* SaleOpportunity.process on the opportunities of S
process(opps, sls, rel, S) ==
    LET o1 == set_sale_state(opps, sls, rel, S)
        wonL == {o \in S : is_won(o1[o])}
        lostL == {o \in S : ~is_won(o1[o]) /\ is_lost(o1[o])}
        resetL == {o \in S : ~is_won(o1[o]) /\ ~is_lost(o1[o]) /\ is_reset(o1[o])}
        o2 == IF wonL # {} THEN WriteState(won(o1, sls, rel, wonL), wonL, "won") ELSE o1
        o3 == IF lostL # {} THEN WriteState(lost(o2, lostL), lostL, "lost") ELSE o2
    IN IF resetL # {} THEN WriteState(o3, lostL, "converted") ELSE o3

\* the id create_sale gives to the new sale of each opportunity _convert runs on
NewSale(filtered, base) ==
    [o \in filtered |-> base + Cardinality({x \in filtered : x <= o})]

\* a create_sale that saves the sales and does not add them to the opportunities
create_sale_unlinked(opps, sls, rel, filtered, base) ==
    LET new == NewSale(filtered, base)
        ids == {new[o] : o \in filtered}
    IN [opportunities |-> opps,
        sales |-> [s \in DOMAIN sls \cup ids |-> IF s \in ids THEN "draft" ELSE sls[s]],
        rel |-> rel,
        result |-> ids]

\* create_sale for every opportunity of `filtered`: a draft sale, added to its sales
\* (OpportunitySale.create then sets the sale state of the opportunity)
create_sale(opps, sls, rel, filtered, base) ==
    LET new == NewSale(filtered, base)
        ids == {new[o] : o \in filtered}
        sls2 == [s \in DOMAIN sls \cup ids |-> IF s \in ids THEN "draft" ELSE sls[s]]
        rel2 == rel \cup {<<o, new[o]>> : o \in filtered}
    IN [opportunities |-> set_sale_state(opps, sls2, rel2, filtered),
        sales |-> sls2,
        rel |-> rel2,
        result |-> ids]

\* _convert under Workflow.transition('converted')
_convert(opps, sls, rel, S, base) ==
    LET f == Filtered(opps, S, "converted")
        a == create_sale(opps, sls, rel, f, base)
        b == set_sale_state(a.opportunities, a.sales, a.rel, f)
    IN [a EXCEPT !.opportunities =
            WriteState(b, ToUpdate(opps, S, "converted"), "converted")]

\* ------------------------------------------------ SaleOpportunity operations
\* a constraint that only checks the upper limit
check_percentage_upper(probability) == probability <= 100

\* the SQL constraint check_percentage
check_percentage(probability) == probability >= 0 /\ probability <= 100

\* a create that keeps the reference the caller sends
NewOpportunity_setdefault(probability, reference) ==
    [state |-> default_state,
     sale_state |-> default_sale_state,
     probability |-> IF probability = None THEN default_probability ELSE probability,
     reference |-> IF reference = None THEN sequence ELSE reference,
     end_date |-> None,
     won_amount |-> None]

\* the values create stores for a new opportunity: the defaults, the values sent,
\* and the reference taken from the sequence
NewOpportunity(probability, reference) ==
    [state |-> default_state,
     sale_state |-> default_sale_state,
     probability |-> IF probability = None THEN default_probability ELSE probability,
     reference |-> sequence,
     end_date |-> None,
     won_amount |-> None]

\* SaleOpportunity.create with one record of values
SaleOpportunity_create(probability, reference) ==
    LET id == opportunity_id + 1
        new == NewOpportunity(probability, reference)
    IN IF ~check_percentage(new.probability)
       THEN raise_user_error("check_percentage")
       ELSE [Return([o \in Live \cup {id} |->
                        IF o = id
                        THEN [new EXCEPT !.probability = Stored("probability", @)]
                        ELSE opportunities[o]],
                    sales, opportunity_sale_rel, {<<"sale.opportunity", id>>})
                EXCEPT !.sequence = sequence + 1, !.opportunity_id = id]

\* SaleOpportunity.write of the probability of one record
SaleOpportunity_write(o, probability) ==
    IF ~check_percentage(probability)
    THEN raise_user_error("check_percentage")
    ELSE Return([opportunities EXCEPT ![o].probability = Stored("probability", probability)],
                sales, opportunity_sale_rel, {})

\* a delete that does not look at the state
NoCheck(opps, S) == {}

\* the records SaleOpportunity.delete refuses to delete, after cancel
NotCancelled(opps, S) == {o \in S : opps[o].state # "cancelled"}

\* SaleOpportunity.delete; the links of a deleted opportunity go with it (CASCADE).
\* The result is the set of states the deleted records were in when deleted.
SaleOpportunity_delete(S) ==
    LET cancelled == cancel(opportunities, S)
    IN IF NotCancelled(cancelled, S) # {}
       THEN raise_user_error("sale.opportunity:delete_cancel")
       ELSE Return([o \in Live \ S |-> cancelled[o]], sales,
                   {l \in opportunity_sale_rel : l[1] \notin S},
                   {cancelled[o].state : o \in S})

\* the buttons lead, opportunity, won, lost and cancel
SaleOpportunity_lead(S) ==
    Return(lead(opportunities, S), sales, opportunity_sale_rel, {})

SaleOpportunity_opportunity(S) ==
    Return(opportunity(opportunities, S), sales, opportunity_sale_rel, {})

SaleOpportunity_won(S) ==
    Return(won(opportunities, sales, opportunity_sale_rel, S), sales,
           opportunity_sale_rel, {})

SaleOpportunity_lost(S) ==
    Return(lost(opportunities, S), sales, opportunity_sale_rel, {})

SaleOpportunity_cancel(S) ==
    Return(cancel(opportunities, S), sales, opportunity_sale_rel, {})

\* ConvertOpportunity.do_convert: _convert on the active records; the result is
\* the sales it returns
do_convert(S) ==
    LET r == _convert(opportunities, sales, opportunity_sale_rel, S, sale_id)
    IN [Return(r.opportunities, r.sales, r.rel, {<<"sale.sale", s>> : s \in r.result})
            EXCEPT !.sale_id = sale_id + Cardinality(r.result)]

\* SaleOpportunity.process called on its own
SaleOpportunity_process(S) ==
    Return(process(opportunities, sales, opportunity_sale_rel, S), sales,
           opportunity_sale_rel, {})

\* ------------------------------------------------ OpportunitySale operations
\* OpportunitySale.create of one link (a sale added to an opportunity)
OpportunitySale_create(o, s) ==
    LET rel == opportunity_sale_rel \cup {<<o, s>>}
    IN Return(set_sale_state(opportunities, sales, rel, {o}), sales, rel, {})

\* OpportunitySale.delete of one link
OpportunitySale_delete(o, s) ==
    LET rel == opportunity_sale_rel \ {<<o, s>>}
    IN Return(set_sale_state(opportunities, sales, rel, {o}), sales, rel, {})

\* ------------------------------------------------------------ Sale workflow
\* the workflow of sale.sale that Sale.cancel/draft/confirm/process call through super
super_cancel(sls, S) ==
    [s \in DOMAIN sls |->
        IF s \in S /\ sls[s] \in {"draft", "quotation"} THEN "cancel" ELSE sls[s]]

super_draft(sls, S) ==
    [s \in DOMAIN sls |->
        IF s \in S /\ sls[s] \in {"cancel", "quotation"} THEN "draft" ELSE sls[s]]

super_quote(sls, S) ==
    [s \in DOMAIN sls |-> IF s \in S /\ sls[s] = "draft" THEN "quotation" ELSE sls[s]]

super_confirm(sls, S) ==
    [s \in DOMAIN sls |-> IF s \in S /\ sls[s] = "quotation" THEN "confirmed" ELSE sls[s]]

\* D: the sales of S that are fully invoiced and shipped when processed
super_process(sls, S, D) ==
    [s \in DOMAIN sls |->
        IF s \in S /\ s \in D /\ sls[s] = "processing" THEN "done"
        ELSE IF s \in S /\ s \notin D /\ sls[s] \in {"confirmed", "done"} THEN "processing"
        ELSE sls[s]]

\* process_opportunity: Opportunity.process on the opportunities of the sales
process_opportunity(opps, sls, rel, S) ==
    process(opps, sls, rel, UNION {OpportunitiesOf(rel, s) : s \in S})

\* ---------------------------------------------------------- Sale operations
Sale_cancel(S) ==
    LET sls == super_cancel(sales, S)
    IN Return(process_opportunity(opportunities, sls, opportunity_sale_rel, S), sls,
              opportunity_sale_rel, {})

Sale_draft(S) ==
    LET sls == super_draft(sales, S)
    IN Return(process_opportunity(opportunities, sls, opportunity_sale_rel, S), sls,
              opportunity_sale_rel, {})

Sale_confirm(S) ==
    LET sls == super_confirm(sales, S)
    IN Return(process_opportunity(opportunities, sls, opportunity_sale_rel, S), sls,
              opportunity_sale_rel, {})

Sale_process(S, D) ==
    LET sls == super_process(sales, S, D)
    IN Return(process_opportunity(opportunities, sls, opportunity_sale_rel, S), sls,
              opportunity_sale_rel, {})

\* Sale.quote is not overridden: the sale changes, no opportunity is processed
Sale_quote(S) ==
    Return(opportunities, super_quote(sales, S), opportunity_sale_rel, {})

\* the check of Sale.delete: the sales of S that are the last sale of an opportunity
LastSales(rel, S) ==
    {s \in S : \E o \in OpportunitiesOf(rel, s) : Cardinality(SalesOf(rel, o)) = 1}

\* a link that lets its sale go (as ondelete='CASCADE' would)
ondelete_cascade(rel, S) == FALSE

\* ondelete='RESTRICT' of OpportunitySale.sale: a linked sale cannot be deleted
ondelete_restrict(rel, S) == \E l \in rel : l[2] \in S

\* Sale.delete: the last-sale check, then the deletion of sale.sale (cancel first,
\* only cancelled sales, no sale a link still points to)
Sale_delete(S) ==
    LET sls == super_cancel(sales, S)
        opps == process_opportunity(opportunities, sls, opportunity_sale_rel, S)
    IN IF LastSales(opportunity_sale_rel, S) # {}
       THEN raise_user_error("sale.sale:delete_last_sale")
       ELSE IF \E s \in S : sls[s] # "cancel"
       THEN raise_user_error("sale.sale:delete_cancel")
       ELSE IF ondelete_restrict(opportunity_sale_rel, S)
       THEN raise_user_error("sale.sale:foreign_model_exist")
       ELSE Return(opps, [s \in LiveSales \ S |-> sls[s]],
                   {l \in opportunity_sale_rel : l[2] \notin S}, {})

\* ------------------------------------------------------------------ actions
NonEmptyLive(S) == S # {} /\ S \subseteq Live
NonEmptyLiveSales(S) == S # {} /\ S \subseteq LiveSales

Create(probability, reference) ==
    /\ opportunity_id < MaxOpportunities
    /\ Cardinality(Live) < scope.live
    /\ Commit(SaleOpportunity_create(probability, reference))

Write(o, probability) ==
    /\ o \in Live
    /\ Commit(SaleOpportunity_write(o, probability))

Delete(S) ==
    /\ NonEmptyLive(S)
    /\ Commit(SaleOpportunity_delete(S))

Lead(S) ==
    /\ NonEmptyLive(S)
    /\ Commit(SaleOpportunity_lead(S))

Opportunity(S) ==
    /\ NonEmptyLive(S)
    /\ Commit(SaleOpportunity_opportunity(S))

Won(S) ==
    /\ NonEmptyLive(S)
    /\ Commit(SaleOpportunity_won(S))

Lost(S) ==
    /\ NonEmptyLive(S)
    /\ Commit(SaleOpportunity_lost(S))

Cancel(S) ==
    /\ NonEmptyLive(S)
    /\ Commit(SaleOpportunity_cancel(S))

Convert(S) ==
    /\ NonEmptyLive(S)
    /\ sale_id + Cardinality(Filtered(opportunities, S, "converted")) <= scope.sales
    /\ Commit(do_convert(S))

Process(S) ==
    /\ NonEmptyLive(S)
    /\ Commit(SaleOpportunity_process(S))

Link(o, s) ==
    /\ o \in Live /\ s \in LiveSales /\ <<o, s>> \notin opportunity_sale_rel
    /\ Commit(OpportunitySale_create(o, s))

Unlink(o, s) ==
    /\ <<o, s>> \in opportunity_sale_rel
    /\ Commit(OpportunitySale_delete(o, s))

SaleCancel(S) ==
    /\ NonEmptyLiveSales(S)
    /\ Commit(Sale_cancel(S))

SaleDraft(S) ==
    /\ NonEmptyLiveSales(S)
    /\ Commit(Sale_draft(S))

SaleQuote(S) ==
    /\ NonEmptyLiveSales(S)
    /\ Commit(Sale_quote(S))

SaleConfirm(S) ==
    /\ NonEmptyLiveSales(S)
    /\ Commit(Sale_confirm(S))

SaleProcess(S, D) ==
    /\ NonEmptyLiveSales(S)
    /\ D \subseteq S
    /\ Commit(Sale_process(S, D))

SaleDelete(S) ==
    /\ NonEmptyLiveSales(S)
    /\ Commit(Sale_delete(S))

\* ------------------------------------------------------------ specification
Empty ==
    /\ opportunities = <<>>
    /\ sales = <<>>
    /\ opportunity_sale_rel = {}
    /\ sequence = 1
    /\ opportunity_id = 0
    /\ sale_id = 0

Next ==
    \/ \E p \in ProbabilityInputs, r \in ReferenceInputs : Create(p, r)
    \/ \E o \in OpportunityIds, p \in ProbabilityInputs \ {None} : Write(o, p)
    \/ \E S \in SUBSET OpportunityIds : Delete(S)
    \/ \E S \in SUBSET OpportunityIds : Lead(S)
    \/ \E S \in SUBSET OpportunityIds : Opportunity(S)
    \/ \E S \in SUBSET OpportunityIds : Won(S)
    \/ \E S \in SUBSET OpportunityIds : Lost(S)
    \/ \E S \in SUBSET OpportunityIds : Cancel(S)
    \/ \E S \in SUBSET OpportunityIds : Convert(S)
    \/ \E S \in SUBSET OpportunityIds : Process(S)
    \/ \E o \in OpportunityIds, s \in SaleIds : Link(o, s)
    \/ \E o \in OpportunityIds, s \in SaleIds : Unlink(o, s)
    \/ \E S \in SUBSET SaleIds : SaleCancel(S)
    \/ \E S \in SUBSET SaleIds : SaleDraft(S)
    \/ \E S \in SUBSET SaleIds : SaleQuote(S)
    \/ \E S \in SUBSET SaleIds : SaleConfirm(S)
    \/ \E S \in SUBSET SaleIds : \E D \in SUBSET S : SaleProcess(S, D)
    \/ \E S \in SUBSET SaleIds : SaleDelete(S)

\* the workflow: every operation, up to MaxOpportunities opportunities at a time,
\* following state, sale_state, reference and the links
Init ==
    /\ Empty
    /\ scope = [fields |-> {}, live |-> MaxOpportunities, sales |-> MaxSales]
    /\ sale_list = <<>>
    /\ sale_list_state = "none"
    /\ NoCall

Spec == Init /\ [][Next]_vars

\* the fields: every operation, MaxLive opportunities at a time, following all fields
InitFields ==
    /\ Empty
    /\ scope = [fields |-> Fields, live |-> MaxLive, sales |-> MaxSales]
    /\ sale_list = <<>>
    /\ sale_list_state = "none"
    /\ NoCall

SpecFields == InitFields /\ [][Next]_vars

\* get_sale_state taken alone, on every list of sale states up to MaxSaleList
SaleLists == UNION {[1..n -> SaleStates] : n \in 0..MaxSaleList}

InitSaleState ==
    /\ Empty
    /\ scope = [fields |-> {}, live |-> 0, sales |-> 0]
    /\ sale_list \in SaleLists
    /\ sale_list_state = "unset"
    /\ NoCall

GetSaleState ==
    /\ sale_list_state = "unset"
    /\ sale_list_state' = get_sale_state(sale_list)
    /\ UNCHANGED <<opportunities, sales, opportunity_sale_rel, sequence, opportunity_id,
                   sale_id, scope, sale_list, call, returned>>

SpecSaleState == InitSaleState /\ [][GetSaleState]_vars

\* ------------------------------------------------------------------- claims
\* C1: every change of the state of an opportunity, by any operation, is a pair
\* (old state, new state) of the declared transitions.
C1_StateChangesAreTransitions ==
    [][\A o \in DOMAIN opportunities \cap DOMAIN opportunities' :
          opportunities'[o].state # opportunities[o].state
              => <<opportunities[o].state, opportunities'[o].state>> \in _transitions]_vars

\* C2: _convert (and the convert wizard) creates exactly one new sale for each given
\* opportunity in state opportunity or converted, links it to that opportunity,
\* leaves the opportunity converted and returns exactly those sales; for a given
\* opportunity in another state it creates and returns nothing.
C2_ConvertOneSaleEach ==
    \A S \in SUBSET Live :
        LET out == do_convert(S)
            given == {o \in S : opportunities[o].state \in {"opportunity", "converted"}}
            new == {r[2] : r \in out.result}
        IN /\ out.error = ""
           /\ \A r \in out.result : r[1] = "sale.sale"
           /\ new \cap LiveSales = {}
           /\ DOMAIN out.sales = LiveSales \cup new
           /\ \A s \in LiveSales : out.sales[s] = sales[s]
           /\ Cardinality(new) = Cardinality(given)
           /\ \A s \in new : \E o \in given : OpportunitiesOf(out.rel, s) = {o}
           /\ \A o \in given :
                /\ \E s \in new :
                      SalesOf(out.rel, o) = SalesOf(opportunity_sale_rel, o) \cup {s}
                /\ out.opportunities[o].state = "converted"
           /\ \A o \in Live \ given :
                /\ SalesOf(out.rel, o) = SalesOf(opportunity_sale_rel, o)
                /\ out.opportunities[o].state = opportunities[o].state

\* a converted opportunity with the one draft sale made for it, beside an
\* opportunity still a lead, for which no sale was made
C2_Witness ==
    \E o \in Live, l \in Live, s \in LiveSales :
        /\ opportunities[o].state = "converted"
        /\ SalesOf(opportunity_sale_rel, o) = {s}
        /\ OpportunitiesOf(opportunity_sale_rel, s) = {o}
        /\ sales[s] = "draft"
        /\ opportunities[l].state = "lead"
        /\ SalesOf(opportunity_sale_rel, l) = {}

\* the outcomes Sale.cancel, Sale.draft, Sale.confirm and Sale.process can have on
\* the sales S, and the opportunities these calls process
SaleCallOutcomes(S) ==
    {Sale_cancel(S), Sale_draft(S), Sale_confirm(S)}
        \cup {Sale_process(S, D) : D \in SUBSET S}

Processed(S) == UNION {OpportunitiesOf(opportunity_sale_rel, s) : s \in S}

\* C3: after Sale.confirm, Sale.process, Sale.cancel or Sale.draft returns, every
\* opportunity of the sales passed that has a sale confirmed, processing or done
\* is in state won.
C3_ConfirmedSaleWins ==
    \A S \in SUBSET LiveSales : \A out \in SaleCallOutcomes(S) :
        \A o \in Processed(S) :
            (\E s \in SalesOf(out.rel, o) :
                out.sales[s] \in {"confirmed", "processing", "done"})
                => out.opportunities[o].state = "won"

\* C4: after Sale.cancel, Sale.draft, Sale.confirm or Sale.process returns, every
\* opportunity of the sales passed whose sales are all in state cancel is in state
\* lost, for any batch of sales.
C4_CancelledSalesLose ==
    \A S \in SUBSET LiveSales : \A out \in SaleCallOutcomes(S) :
        \A o \in Processed(S) :
            (\A s \in SalesOf(out.rel, o) : out.sales[s] = "cancel")
                => out.opportunities[o].state = "lost"

\* C5: SaleOpportunity.delete applies cancel, then deletes the given opportunities
\* only if everyone is then cancelled: a record is deleted only in state cancelled,
\* and when a given opportunity is converted, won or lost the delete_cancel error
\* is raised and none is deleted.
C5_DeleteOnlyCancelled ==
    \A S \in (SUBSET Live) \ {{}} :
        LET out == SaleOpportunity_delete(S)
            stuck == {o \in S : opportunities[o].state \in {"converted", "won", "lost"}}
        IN /\ out.error \in {"", "sale.opportunity:delete_cancel"}
           /\ stuck # {} =>
                /\ out.error = "sale.opportunity:delete_cancel"
                /\ out.opportunities = opportunities
                /\ out.rel = opportunity_sale_rel
           /\ out.error = "" =>
                /\ stuck = {}
                /\ DOMAIN out.opportunities = Live \ S
                /\ out.result = {"cancelled"}
                /\ \A o \in Live \ S : out.opportunities[o] = opportunities[o]

\* one opportunity has been deleted, and a delete of the other one, which is won,
\* lost or converted, raises delete_cancel
C5_Witness ==
    /\ opportunity_id > Cardinality(Live)
    /\ \E o \in Live :
        /\ opportunities[o].state \in {"converted", "won", "lost"}
        /\ SaleOpportunity_delete({o}).error = "sale.opportunity:delete_cancel"

\* C6: Sale.delete never removes the last sale of an opportunity: after a
\* Sale.delete that succeeds, of one sale or of several, every opportunity that had
\* a sale still has one; when delete_last_sale is raised no sale is deleted.
C6_DeleteKeepsLastSale ==
    \A S \in (SUBSET LiveSales) \ {{}} :
        LET out == Sale_delete(S)
        IN /\ out.error = "" =>
                \A o \in Live :
                    SalesOf(opportunity_sale_rel, o) # {} => SalesOf(out.rel, o) # {}
           /\ out.error = "sale.sale:delete_last_sale" =>
                /\ out.sales = sales
                /\ out.rel = opportunity_sale_rel
           /\ (\E s \in S, o \in Live : SalesOf(opportunity_sale_rel, o) = {s})
                => out.error = "sale.sale:delete_last_sale"

\* a sale has been deleted while an opportunity keeps its sale, and the delete of
\* that last sale raises delete_last_sale
C6_Witness ==
    /\ sale_id > Cardinality(LiveSales)
    /\ \E o \in Live, s \in LiveSales :
        /\ SalesOf(opportunity_sale_rel, o) = {s}
        /\ Sale_delete({s}).error = "sale.sale:delete_last_sale"

\* C7: every stored opportunity has a probability between 0 and 100: a new one
\* gets 50 by default, and a create or a write of a probability outside 0..100 is
\* rejected and leaves the stored records unchanged.
C7_ProbabilityInRange ==
    /\ \A o \in Live : opportunities[o].probability \in 0..100
    /\ \A p \in ProbabilityInputs, r \in ReferenceInputs :
        LET out == SaleOpportunity_create(p, r)
        IN /\ (p # None /\ p \notin 0..100) =>
                /\ out.error = "check_percentage"
                /\ out.opportunities = opportunities
           /\ p = None =>
                /\ out.error = ""
                /\ out.opportunities[out.opportunity_id].probability = 50
    /\ \A o \in Live, p \in ProbabilityInputs \ {None} :
        LET out == SaleOpportunity_write(o, p)
        IN IF p \in 0..100
           THEN out.error = "" /\ out.opportunities[o].probability = p
           ELSE out.error = "check_percentage" /\ out.opportunities = opportunities

\* an opportunity created with the default 50, another probability written to it
\* since, and a write of 101 that is rejected
C7_Witness ==
    \E o \in Live :
        /\ "probability" \in scope.fields
        /\ opportunities[o].probability = 100
        /\ opportunities[o].state # "lead"
        /\ SaleOpportunity_write(o, 101).error = "check_percentage"

\* C8: get_sale_state is none without sale; else done when every sale is done; else
\* confirmed when a sale is confirmed, processing or done; else cancelled when every
\* sale is cancel; else waiting when a sale is draft; else none; always one of the
\* five values of the sale_state field.
Count(states, S) == Cardinality({i \in 1..Len(states) : states[i] \in S})

C8_SaleStateTable ==
    sale_list_state # "unset" =>
        LET n == Len(sale_list)
            done == Count(sale_list, {"done"})
            sold == Count(sale_list, {"confirmed", "processing", "done"})
            cancelled == Count(sale_list, {"cancel"})
            draft == Count(sale_list, {"draft"})
        IN /\ sale_list_state \in SALE_STATE_SELECTION
           /\ sale_list_state = "none" <=>
                (n = 0 \/ (sold = 0 /\ cancelled < n /\ draft = 0))
           /\ sale_list_state = "done" <=> (n > 0 /\ done = n)
           /\ sale_list_state = "confirmed" <=> (sold > 0 /\ done < n)
           /\ sale_list_state = "cancelled" <=> (n > 0 /\ cancelled = n)
           /\ sale_list_state = "waiting" <=> (sold = 0 /\ cancelled < n /\ draft > 0)

\* the sale state of a done sale beside a cancelled one and a draft one is confirmed
C8_Witness ==
    /\ sale_list_state = "confirmed"
    /\ Count(sale_list, {"done"}) = 1
    /\ Count(sale_list, {"cancel"}) = 1
    /\ Count(sale_list, {"draft"}) = 1

\* C9: when Opportunity.process runs on an opportunity in state lost whose
\* recomputed sale state is waiting, the opportunity is converted afterwards.
C9_ResetToConverted ==
    /\ \A S \in SUBSET Live :
        LET out == SaleOpportunity_process(S)
        IN \A o \in S :
            (/\ opportunities[o].state = "lost"
             /\ get_sale_state(SaleStatesOf(out.sales, out.rel, o)) = "waiting")
                => out.opportunities[o].state = "converted"
    /\ \A S \in SUBSET LiveSales : \A out \in SaleCallOutcomes(S) :
        \A o \in Processed(S) :
            (/\ opportunities[o].state = "lost"
             /\ get_sale_state(SaleStatesOf(out.sales, out.rel, o)) = "waiting")
                => out.opportunities[o].state = "converted"

\* C10: a new opportunity, when the caller sends no value for these fields, is a
\* lead with sale state none, probability 50 and no sale; its reference is the next
\* number of the sequence whatever reference the caller sends.
C10_CreateDefaults ==
    \A p \in ProbabilityInputs, r \in ReferenceInputs :
        LET out == SaleOpportunity_create(p, r)
            id == out.opportunity_id
        IN out.error = "" =>
            /\ out.result = {<<"sale.opportunity", id>>}
            /\ id \notin Live
            /\ DOMAIN out.opportunities = Live \cup {id}
            /\ \A o \in Live : out.opportunities[o] = opportunities[o]
            /\ out.opportunities[id].state = "lead"
            /\ out.opportunities[id].sale_state = "none"
            /\ p = None => out.opportunities[id].probability = 50
            /\ SalesOf(out.rel, id) = {}
            /\ out.opportunities[id].reference = sequence
            /\ out.sequence = sequence + 1
            /\ \A o \in Live : opportunities[o].reference < sequence

\* a second opportunity has been created and holds the second number of the
\* sequence, a lead with probability 50 and no sale
C10_Witness ==
    \E o \in Live :
        /\ "probability" \in scope.fields
        /\ opportunities[o].reference = 2
        /\ opportunities[o].state = "lead"
        /\ opportunities[o].sale_state = "none"
        /\ opportunities[o].probability = 50
        /\ SalesOf(opportunity_sale_rel, o) = {}
        /\ sequence = 3

\* ------------------------------------------------ create_sale and its lines
\* lines of the opportunity create_sale is taken alone on
MaxLines == 2

\* products, with the unit each is sold in, and the category of every unit
Products == {"service", "flour"}
Uoms == {"unit", "kg", "g"}
Quantities == {1, 2}
sale_uom(product) == IF product = "service" THEN "unit" ELSE "kg"
category(unit) == IF unit = "unit" THEN "units" ELSE "weight"

\* sale.opportunity.line: product, quantity, unit; the id of a line is its place
OpportunityLines ==
    UNION {[1..n -> [product : Products, quantity : Quantities, unit : Uoms]] :
              n \in 0..MaxLines}

\* the fields of the opportunity _get_sale_opportunity reads
OpportunityHeaders ==
    [description : {None, 7}, party : {1, 2}, payment_term : {None, 1},
     company : {1}, address : {None, 1}]

\* on_change_product that takes the unit the product is sold in, always
on_change_product_sale_uom(sale_line) ==
    [sale_line EXCEPT !.unit = sale_uom(sale_line.product),
                      !.description = sale_line.product]

\* sale.line on_change_product, the rule SaleOpportunityLine.on_change_product has
\* too: a unit outside the category of the product's sale unit is replaced by the
\* sale unit; the description is taken from the product
on_change_product(sale_line) ==
    [sale_line EXCEPT
        !.unit = IF category(sale_line.unit) # category(sale_uom(sale_line.product))
                 THEN sale_uom(sale_line.product) ELSE sale_line.unit,
        !.description = sale_line.product]

get_sale_line(line, sale) ==
    on_change_product([type |-> "line", quantity |-> line.quantity, unit |-> line.unit,
                       product |-> line.product, sale |-> sale, description |-> None,
                       origin |-> None])

\* res: opportunity line -> sale line
_get_sale_line_opportunity_line(lines, sale) ==
    [line \in DOMAIN lines |-> get_sale_line(lines[line], sale)]

_get_sale_opportunity(header) ==
    [description |-> header.description, party |-> header.party,
     payment_term |-> header.payment_term, company |-> header.company,
     invoice_address |-> header.address, shipment_address |-> header.address,
     sale_date |-> None, state |-> "draft"]

\* create_sale with the sale it saves and the sale lines it saves: the sale gets
\* the id `id`, the sale lines their sale and their origin
create_sale_lines(header, lines, linked, id) ==
    LET sale == _get_sale_opportunity(header)
        sale_lines == _get_sale_line_opportunity_line(lines, id)
    IN [sale |-> sale,
        sale_lines |-> {[sale_lines[line] EXCEPT !.sale = id, !.origin = line] :
                           line \in DOMAIN sale_lines},
        sales |-> linked \cup {id},
        result |-> id]

CreateSale ==
    /\ returned = <<>>
    /\ returned' = <<create_sale_lines(call.header, call.lines, call.sales, call.id)>>
    /\ UNCHANGED <<db, scope, sale_list, sale_list_state, call>>

InitLines ==
    /\ Empty
    /\ scope = [fields |-> {}, live |-> 0, sales |-> 0]
    /\ sale_list = <<>>
    /\ sale_list_state = "none"
    /\ call \in [header : OpportunityHeaders, lines : OpportunityLines,
                 sales : {{}, {1}}, id : {2}]
    /\ returned = <<>>

SpecLines == InitLines /\ [][CreateSale]_vars

\* C11 as stated: one sale line per opportunity line, with the product, the
\* quantity and the unit of the opportunity line and that line as origin, and no
\* other; the sale has the party, company, payment term and description of the
\* opportunity and is added to its sales.
C11_SaleLinesCopyUnit ==
    returned # <<>> =>
        LET out == returned[1]
        IN /\ \A line \in DOMAIN call.lines :
                {l \in out.sale_lines : l.origin = line}
                    = {[type |-> "line", sale |-> call.id, origin |-> line,
                        product |-> call.lines[line].product,
                        quantity |-> call.lines[line].quantity,
                        unit |-> call.lines[line].unit,
                        description |-> call.lines[line].product]}
           /\ \A l \in out.sale_lines : l.origin \in DOMAIN call.lines
           /\ out.sale.party = call.header.party
           /\ out.sale.company = call.header.company
           /\ out.sale.payment_term = call.header.payment_term
           /\ out.sale.description = call.header.description
           /\ out.sales = call.sales \cup {out.result}

\* C11 amended: as above, but the unit of the sale line is the unit of the
\* opportunity line only when it is in the category of the unit the product is sold
\* in, and that sale unit otherwise.
C11_SaleLines ==
    returned # <<>> =>
        LET out == returned[1]
            Unit(line) ==
                IF category(line.unit) = category(sale_uom(line.product))
                THEN line.unit ELSE sale_uom(line.product)
        IN /\ \A line \in DOMAIN call.lines :
                {l \in out.sale_lines : l.origin = line}
                    = {[type |-> "line", sale |-> call.id, origin |-> line,
                        product |-> call.lines[line].product,
                        quantity |-> call.lines[line].quantity,
                        unit |-> Unit(call.lines[line]),
                        description |-> call.lines[line].product]}
           /\ \A l \in out.sale_lines : l.origin \in DOMAIN call.lines
           /\ Cardinality(out.sale_lines) = Len(call.lines)
           /\ out.sale.party = call.header.party
           /\ out.sale.company = call.header.company
           /\ out.sale.payment_term = call.header.payment_term
           /\ out.sale.description = call.header.description
           /\ out.sales = call.sales \cup {out.result}

\* a sale made from two lines of the same product, one in grams that keeps its
\* unit, one in units that gets the kilogram the product is sold in
C11_Witness ==
    /\ returned # <<>>
    /\ Len(call.lines) = 2
    /\ call.lines[1] = [product |-> "flour", quantity |-> 2, unit |-> "g"]
    /\ call.lines[2] = [product |-> "flour", quantity |-> 2, unit |-> "unit"]
    /\ {l.unit : l \in returned[1].sale_lines} = {"g", "kg"}
    /\ returned[1].sales = {1, 2}

\* ------------------------------------------------------------------ reports
\* opportunities in the table the reports are taken alone on
MaxRows == 2

\* the columns of sale_opportunity the report queries read; start_date is a
\* date to the month, yyyymm
Employees == {1, 2}
Companies == {1}
StartDates == {201601, 201602}
ExpectedAmounts == {None, 100}
WonAmounts == {None, 80}
ReportRows ==
    [employee : Employees, company : Companies, start_date : StartDates,
     state : STATES, expected_amount : ExpectedAmounts, won_amount : WonAmounts]
ReportTables == UNION {[1..n -> ReportRows] : n \in 0..MaxRows}

\* Transaction().context of the per-employee report: start_date, end_date
ReportContexts ==
    {[start_date |-> None, end_date |-> None],
     [start_date |-> 201602, end_date |-> None],
     [start_date |-> None, end_date |-> 201601]}

_won_state == {"won"}
_lost_state == {"lost"}

Extract(part, date) == IF part = "YEAR" THEN date \div 100 ELSE date % 100

\* SQL aggregates over the rows `ids` of a table: COUNT(1), and SUM of an
\* expression, which skips NULL and is NULL when every value is NULL
Count1(ids) == Cardinality(ids)

RECURSIVE SqlSumOf(_, _)
SqlSumOf(value, ids) ==
    IF ids = {} THEN 0
    ELSE LET i == CHOOSE x \in ids : TRUE
         IN (IF value[i] = None THEN 0 ELSE value[i]) + SqlSumOf(value, ids \ {i})

SqlSum(value, ids) ==
    IF \A i \in ids : value[i] = None THEN None ELSE SqlSumOf(value, ids)

\* the count with the test of the state dropped
CountAll(table, ids, states) == Count1(ids)

\* Sum(Case((state in states, Literal(1)), else_=Literal(0)))
CountAny(table, ids, states) ==
    SqlSum([i \in DOMAIN table |-> IF table[i].state \in states THEN 1 ELSE 0], ids)

\* Sum(Case((state in states, expected_amount), else_=Literal(0)))
SumExpectedIn(table, ids, states) ==
    SqlSum([i \in DOMAIN table |->
               IF table[i].state \in states THEN table[i].expected_amount ELSE 0], ids)

\* the where clause of the per-employee report
Where(table, context) ==
    {i \in DOMAIN table :
        /\ context.start_date # None => table[i].start_date >= context.start_date
        /\ context.end_date # None => table[i].start_date <= context.end_date}

SaleOpportunityEmployee_table_query(table, context) ==
    LET rows == Where(table, context)
        Group(i) == <<table[i].employee, table[i].company>>
        Of(g) == {i \in rows : Group(i) = g}
    IN {[id |-> g[1], employee |-> g[1], company |-> g[2],
         number |-> Count1(Of(g)),
         won |-> CountAny(table, Of(g), _won_state),
         lost |-> CountAny(table, Of(g), _lost_state),
         expected_amount |->
             SqlSum([i \in DOMAIN table |-> table[i].expected_amount], Of(g)),
         won_amount |-> SqlSum([i \in DOMAIN table |-> table[i].won_amount], Of(g))] :
        g \in {Group(i) : i \in rows}}

SaleOpportunityMonthly_table_query(table) ==
    LET rows == DOMAIN table
        Group(i) == <<Extract("YEAR", table[i].start_date),
                      Extract("MONTH", table[i].start_date), table[i].company>>
        Of(g) == {i \in rows : Group(i) = g}
    IN {[id |-> g[2] + g[1] * 100, year |-> g[1], month |-> g[2], company |-> g[3],
         number |-> Count1(Of(g)),
         won |-> CountAny(table, Of(g), _won_state),
         lost |-> CountAny(table, Of(g), _lost_state),
         expected_amount |->
             SqlSum([i \in DOMAIN table |-> table[i].expected_amount], Of(g)),
         won_amount |-> SumExpectedIn(table, Of(g), _won_state)] :
        g \in {Group(i) : i \in rows}}

SaleOpportunityEmployeeMonthly_table_query(table) ==
    LET rows == DOMAIN table
        Group(i) == <<Extract("YEAR", table[i].start_date),
                      Extract("MONTH", table[i].start_date),
                      table[i].employee, table[i].company>>
        Of(g) == {i \in rows : Group(i) = g}
    IN {[id |-> g[2] + g[1] * 100 + g[3] * 1000000,
         year |-> g[1], month |-> g[2], employee |-> g[3], company |-> g[4],
         number |-> Count1(Of(g)),
         won |-> CountAny(table, Of(g), _won_state),
         lost |-> CountAny(table, Of(g), _lost_state),
         expected_amount |->
             SqlSum([i \in DOMAIN table |-> table[i].expected_amount], Of(g)),
         won_amount |-> SumExpectedIn(table, Of(g), _won_state)] :
        g \in {Group(i) : i \in rows}}

\* float(won) / number * 100.0 as the fraction num / den
get_win_rate(row) ==
    IF row.number # 0
    THEN [num |-> row.won * 100, den |-> row.number]
    ELSE [num |-> 0, den |-> 1]

\* a report is opened: its rows, each with its win rate
WithWinRate(rows) ==
    {[row |-> r, win_rate |-> get_win_rate(r)] : r \in rows}

OpenEmployee ==
    /\ call.report = "sale.opportunity_employee"
    /\ returned = <<>>
    /\ returned' =
        <<WithWinRate(SaleOpportunityEmployee_table_query(call.table, call.context))>>
    /\ UNCHANGED <<db, scope, sale_list, sale_list_state, call>>

OpenMonthly ==
    /\ call.report = "sale.opportunity_monthly"
    /\ returned = <<>>
    /\ returned' = <<WithWinRate(SaleOpportunityMonthly_table_query(call.table))>>
    /\ UNCHANGED <<db, scope, sale_list, sale_list_state, call>>

OpenEmployeeMonthly ==
    /\ call.report = "sale.opportunity_employee_monthly"
    /\ returned = <<>>
    /\ returned' =
        <<WithWinRate(SaleOpportunityEmployeeMonthly_table_query(call.table))>>
    /\ UNCHANGED <<db, scope, sale_list, sale_list_state, call>>

NoContext == [start_date |-> None, end_date |-> None]

InitReports ==
    /\ Empty
    /\ scope = [fields |-> {}, live |-> 0, sales |-> 0]
    /\ sale_list = <<>>
    /\ sale_list_state = "none"
    /\ call \in
         [report : {"sale.opportunity_employee"}, context : ReportContexts,
          table : ReportTables]
         \cup [report : {"sale.opportunity_monthly",
                         "sale.opportunity_employee_monthly"},
               context : {NoContext}, table : ReportTables]
    /\ returned = <<>>

NextReports == OpenEmployee \/ OpenMonthly \/ OpenEmployeeMonthly

SpecReports == InitReports /\ [][NextReports]_vars

\* the opportunities of the group of a report row: those the query reads that have
\* the employee, the company and the month of the row, for the columns it has
Members(r) ==
    {i \in Where(call.table, call.context) :
        /\ call.table[i].company = r.company
        /\ "employee" \in DOMAIN r => call.table[i].employee = r.employee
        /\ "month" \in DOMAIN r =>
              call.table[i].start_date = r.year * 100 + r.month}

\* C12: in every row of the three reports number is the count of the opportunities
\* of the group, at least 1, won and lost the counts of those in state won and in
\* state lost, so won + lost <= number; the win rate is won * 100 / number, between
\* 0 and 100, and 0 when number is 0.
C12_ReportCounts ==
    /\ returned # <<>> =>
        /\ \A x \in returned[1] :
            LET r == x.row
                M == Members(r)
            IN /\ r.number = Cardinality(M)
               /\ r.number >= 1
               /\ r.won = Cardinality({i \in M : call.table[i].state = "won"})
               /\ r.lost = Cardinality({i \in M : call.table[i].state = "lost"})
               /\ r.won + r.lost <= r.number
               /\ x.win_rate.den > 0
               /\ x.win_rate.num * r.number = r.won * 100 * x.win_rate.den
               /\ 0 <= x.win_rate.num
               /\ x.win_rate.num <= 100 * x.win_rate.den
        /\ \A i \in Where(call.table, call.context) :
            Cardinality({x \in returned[1] : i \in Members(x.row)}) = 1
    /\ \A n \in 0..MaxRows :
        LET rate == get_win_rate([number |-> 0, won |-> n])
        IN rate.num = 0 /\ rate.den > 0

\* a report row of two opportunities, one won and one neither won nor lost: win
\* rate 50
C12_Witness ==
    /\ returned # <<>>
    /\ \E x \in returned[1] :
        /\ x.row.number = 2
        /\ x.row.won = 1
        /\ x.row.lost = 0
        /\ x.win_rate.num = 50 * x.win_rate.den

\* the stored sale state of o is the one its sales have in the outcome of a call
SaleStateCurrent(out, o) ==
    out.opportunities[o].sale_state
        = get_sale_state(SaleStatesOf(out.sales, out.rel, o))

\* C13: after OpportunitySale.create, OpportunitySale.delete, _convert, Sale.cancel,
\* Sale.draft, Sale.confirm and Sale.process, the stored sale_state of every
\* opportunity the operation acts on is get_sale_state of the current states of
\* its sales.
C13_SaleStateStored ==
    /\ \A o \in Live, s \in LiveSales :
        /\ SaleStateCurrent(OpportunitySale_create(o, s), o)
        /\ SaleStateCurrent(OpportunitySale_delete(o, s), o)
    /\ \A S \in SUBSET Live :
        \A o \in Filtered(opportunities, S, "converted") :
            SaleStateCurrent(do_convert(S), o)
    /\ \A S \in SUBSET LiveSales : \A out \in SaleCallOutcomes(S) :
        \A o \in Processed(S) : SaleStateCurrent(out, o)

\* an opportunity with two sales, one cancelled and one since quoted behind the
\* back of the opportunity: its stored sale state is out of date, and unlinking the
\* cancelled sale or cancelling the other brings it up to date
C13_Witness ==
    \E o \in Live : \E s1, s2 \in SalesOf(opportunity_sale_rel, o) :
        /\ sales[s1] = "cancel"
        /\ sales[s2] = "quotation"
        /\ opportunities[o].sale_state = "waiting"
        /\ OpportunitySale_delete(o, s1).opportunities[o].sale_state = "none"
        /\ Sale_cancel({s2}).opportunities[o].sale_state = "cancelled"

\* the total of the sales of o that are confirmed, processing or done in an outcome
SoldAmount(out, o) ==
    SumAmount({s \in SalesOf(out.rel, o) :
                  out.sales[s] \in {"confirmed", "processing", "done"}})

\* C14: when an opportunity is in state won after it was processed or marked won,
\* its won_amount is the sum of total_amount of its sales then confirmed, processing
\* or done; so confirming a second sale of a won opportunity adds that sale.
C14_WonAmountCurrent ==
    "won_amount" \in scope.fields =>
        /\ \A S \in SUBSET LiveSales : \A out \in SaleCallOutcomes(S) :
            \A o \in Processed(S) :
                out.opportunities[o].state = "won"
                    => out.opportunities[o].won_amount = SoldAmount(out, o)
        /\ \A S \in SUBSET Live :
            LET out == SaleOpportunity_process(S)
            IN \A o \in S :
                out.opportunities[o].state = "won"
                    => out.opportunities[o].won_amount = SoldAmount(out, o)
        /\ \A S \in SUBSET Live :
            LET out == SaleOpportunity_won(S)
            IN \A o \in Filtered(opportunities, S, "won") :
                out.opportunities[o].won_amount = SoldAmount(out, o)

\* C15: every opportunity in state won, lost or cancelled has an end date.
C15_EndDateSet ==
    "end_date" \in scope.fields =>
        \A o \in Live :
            opportunities[o].state \in {"won", "lost", "cancelled"}
                => opportunities[o].end_date # None

\* the workflow with the end date and the won amount followed: every operation,
\* MaxOpportunities opportunities at a time, MaxFrameSales sales
InitFrame ==
    /\ Empty
    /\ scope = [fields |-> {"end_date", "won_amount"}, live |-> MaxOpportunities,
                sales |-> MaxFrameSales]
    /\ sale_list = <<>>
    /\ sale_list_state = "none"
    /\ NoCall

SpecFrame == InitFrame /\ [][Next]_vars

\* the outcomes of the six workflow methods called on S, each with its target state
WorkflowCalls(S) ==
    {[target |-> "lead", out |-> SaleOpportunity_lead(S)],
     [target |-> "opportunity", out |-> SaleOpportunity_opportunity(S)],
     [target |-> "converted", out |-> do_convert(S)],
     [target |-> "won", out |-> SaleOpportunity_won(S)],
     [target |-> "lost", out |-> SaleOpportunity_lost(S)],
     [target |-> "cancelled", out |-> SaleOpportunity_cancel(S)]}

\* C16: lead, opportunity, _convert, won, lost or cancel called on an opportunity
\* whose state has no declared transition to the target of the method raises no
\* error and leaves the opportunity as it was: state, end date, won amount, sale
\* state and sales; no sale is made for it.
C16_UndeclaredIsNoOp ==
    \A S \in SUBSET Live : \A c \in WorkflowCalls(S) :
        LET undeclared ==
                {o \in S : <<opportunities[o].state, c.target>> \notin _transitions}
        IN /\ c.out.error = ""
           /\ \A o \in undeclared :
                /\ c.out.opportunities[o] = opportunities[o]
                /\ SalesOf(c.out.rel, o) = SalesOf(opportunity_sale_rel, o)
           /\ DOMAIN c.out.sales \ DOMAIN sales
                = UNION {SalesOf(c.out.rel, o) \ SalesOf(opportunity_sale_rel, o) :
                            o \in S \ undeclared}
           /\ c.out.result # {} => c.target = "converted"
           /\ Cardinality(c.out.result) <= Cardinality(S \ undeclared)

\* a won opportunity with its end date and won amount and a lead given together to
\* lost and to _convert: the lead is lost, nothing is converted, the won one is
\* as before
C16_Witness ==
    \E o1, o2 \in Live :
        /\ opportunities[o1].state = "won"
        /\ opportunities[o1].won_amount = 10
        /\ opportunities[o1].end_date = Today
        /\ opportunities[o2].state = "lead"
        /\ SaleOpportunity_lost({o1, o2}).opportunities[o2].state = "lost"
        /\ SaleOpportunity_lost({o1, o2}).opportunities[o1] = opportunities[o1]
        /\ do_convert({o1, o2}).sales = sales

\* --------------------------------------------------- the declared workflow
\* length of the walks through the declared transitions
MaxPath == 5

\* the states one declared transition away from a state of R, with R
Successors(R) == R \cup {p[2] : p \in {q \in _transitions : q[1] \in R}}

\* the states n declared transitions or fewer away from s
RECURSIVE ReachIn(_, _)
ReachIn(s, n) == IF n = 0 THEN {s} ELSE Successors(ReachIn(s, n - 1))

\* the states a sequence of declared transitions leads to from s
Reach(s) == ReachIn(s, Cardinality(STATES))

\* one opportunity taken through declared transitions: the states it had
Step(to) ==
    /\ Len(call) < MaxPath
    /\ <<call[Len(call)], to>> \in _transitions
    /\ call' = Append(call, to)
    /\ UNCHANGED <<db, scope, sale_list, sale_list_state, returned>>

NextWorkflow == \E to \in STATES : Step(to)

InitWorkflow ==
    /\ Empty
    /\ scope = [fields |-> {}, live |-> 0, sales |-> 0]
    /\ sale_list = <<>>
    /\ sale_list_state = "none"
    /\ call \in {<<s>> : s \in STATES}
    /\ returned = <<>>

SpecWorkflow == InitWorkflow /\ [][NextWorkflow]_vars

\* C17: the declared workflow has no dead end: from each of the six states a
\* sequence of declared transitions leads back to lead, and from lead every one of
\* the six states is reached by declared transitions.
C17_NoDeadEnd ==
    /\ \A s \in STATES : "lead" \in Reach(s)
    /\ Reach("lead") = STATES
    /\ \A i \in 1..Len(call) : call[i] \in Reach(call[1])
    /\ \E to \in STATES : <<call[Len(call)], to>> \in _transitions

\* an opportunity cancelled, taken back to lead and on to won
C17_Witness ==
    call = <<"cancelled", "lead", "opportunity", "converted", "won">>

\* the sum of a column over report rows, a NULL counted as 0
RECURSIVE Total(_, _)
Total(rows, column) ==
    IF rows = {} THEN 0
    ELSE LET r == CHOOSE x \in rows : TRUE
         IN (IF r[column] = None THEN 0 ELSE r[column]) + Total(rows \ {r}, column)

ReportColumns == {"number", "won", "lost", "expected_amount", "won_amount"}

\* the rows of the per-employee-per-month report of the employee and company of
\* a row of the per-employee report
MonthsOf(table, r) ==
    {m \in SaleOpportunityEmployeeMonthly_table_query(table) :
        m.employee = r.employee /\ m.company = r.company}

\* C18: with no date filter, for every employee and company, number, won, lost,
\* expected_amount and won_amount summed over the rows of the per-employee-per-month
\* report give the row of the per-employee report.
C18_ReportsAgree ==
    (/\ returned # <<>>
     /\ call.report = "sale.opportunity_employee"
     /\ call.context = NoContext) =>
        \A x \in returned[1] : \A column \in ReportColumns :
            Total(MonthsOf(call.table, x.row), column) = Total({x.row}, column)

====
